---- MODULE Spec2Model ----
(***************************************************************************)
(* SuperCourier mini ETL pipeline (de-code-snippet.py).                    *)
(*                                                                         *)
(* Representation                                                          *)
(*   - a DataFrame is [columns : sequence of names, rows : sequence of     *)
(*     rows]; a row maps each column name to a cell;                       *)
(*   - a cell is <<v>> for a value v and <<>> for a null (None / NaN);     *)
(*   - Distance is kept in hundredths of a kilometre (two decimals);       *)
(*   - ajusted_theoretical_time is kept in units of 1/200000 minute (four  *)
(*     factors with one decimal, the weather factor in twentieths);        *)
(*   - Delay_threshold and a Gaussian draw are kept in millionths of a     *)
(*     minute, Actual_Delivery_Time in tenths of a minute (one decimal).   *)
(* Arithmetic is exact: binary floating point rounding noise is not        *)
(* modelled.                                                               *)
(***************************************************************************)
EXTENDS Integers, Sequences, FiniteSets, TLC

VARIABLES
    pc,             \* position in run_pipeline, or "call"/"returned" for a direct call
    db,             \* rows of the deliveries table in DB_PATH
    weather_data,   \* date string -> hour string -> condition
    df_deliveries,  \* the extracted DataFrame handed to transform_data
    df_estimated,   \* transform_data's local frame before the column selection
    normal_draws,   \* the values np.random.normal returned, one per row
    df_transformed, \* what transform_data returned, or the exception it raised
    output_file,    \* contents of OUTPUT_PATH
    save_arg,       \* the DataFrame of the last save_results call
    save_ret,       \* what the last save_results call returned
    save_err,       \* the exception the last save_results call logged
    result,         \* what run_pipeline returned
    errors,         \* logger.error records
    saves           \* number of save_results calls made so far

vars == <<pc, db, weather_data, df_deliveries, df_estimated, normal_draws,
          df_transformed, output_file, save_arg, save_ret, save_err, result, errors,
          saves>>

(***************************************************************************)
(* Bounds of the model.                                                    *)
(***************************************************************************)
MaxRows == 2
MaxSaves == 2

(***************************************************************************)
(* Cells, frames, results.                                                 *)
(***************************************************************************)
None == <<>>
Cell(v) == <<v>>
IsNull(c) == Len(c) = 0
Val(c) == c[1]

Ok(v) == [ok |-> TRUE, val |-> v, exc |-> "", where |-> ""]
Raise(e, w) == [ok |-> FALSE, val |-> <<>>, exc |-> e, where |-> w]

EmptyFrame == [columns |-> <<>>, rows |-> <<>>]
ColumnSet(df) == {df.columns[i] : i \in DOMAIN df.columns}

(***************************************************************************)
(* Timestamps: seven consecutive calendar days starting on a Monday.       *)
(***************************************************************************)
DateStrs == <<"2024-01-01", "2024-01-02", "2024-01-03", "2024-01-04",
              "2024-01-05", "2024-01-06", "2024-01-07">>
DayNames == <<"Monday", "Tuesday", "Wednesday", "Thursday", "Friday",
              "Saturday", "Sunday">>
HourStrs == <<"0", "1", "2", "3", "4", "5", "6", "7", "8", "9", "10", "11",
              "12", "13", "14", "15", "16", "17", "18", "19", "20", "21",
              "22", "23">>
Dates == 0 .. 6
Hours == 0 .. 23

\* timestamp.strftime('%Y-%m-%d')
strftime(ts) == DateStrs[ts.date + 1]
\* str(timestamp.hour) and Series.dt.hour.astype(str)
str_hour(h) == HourStrs[h + 1]
\* int(row['Hour'])
int_hour(s) == CHOOSE h \in Hours : HourStrs[h + 1] = s
\* Series.dt.day_name()
day_name(ts) == DayNames[(ts.date % 7) + 1]

\* pd.to_datetime with the default errors='raise': an unparseable text raises
pd_to_datetime(txt) ==
    IF txt.text_ok
    THEN Ok([date |-> txt.date, hour |-> txt.hour])
    ELSE Raise("ValueError", "enrich_with_weather")

(***************************************************************************)
(* enrich_with_weather                                                     *)
(***************************************************************************)
\* get_weather with a default category in place of None
get_weather_unknown(wd, ts) ==
    LET date_str == strftime(ts)
        hour_str == str_hour(ts.hour)
    IN  IF date_str \in DOMAIN wd /\ hour_str \in DOMAIN wd[date_str]
        THEN Cell(wd[date_str][hour_str])
        ELSE Cell("Unknown")

get_weather(wd, ts) ==
    LET date_str == strftime(ts)
        hour_str == str_hour(ts.hour)
    IN  IF date_str \in DOMAIN wd /\ hour_str \in DOMAIN wd[date_str]
        THEN Cell(wd[date_str][hour_str])
        ELSE None

EnrichedColumns ==
    <<"Delivery_ID", "Pickup_DateTime", "Package_Type", "Delivery_Zone",
      "Weather_Condition", "Hour", "Weekday", "Distance">>

\* one row of the frame enrich_with_weather returns; raw is a row of the
\* extracted frame, ts its parsed pickup_datetime, dist the uniform draw
EnrichRow(raw, ts, wd, dist) ==
    [Delivery_ID       |-> raw.delivery_id,
     Pickup_DateTime   |-> Cell(ts),
     Package_Type      |-> raw.package_type,
     Delivery_Zone     |-> raw.delivery_zone,
     Weather_Condition |-> get_weather(wd, ts),
     Hour              |-> Cell(str_hour(ts.hour)),
     Weekday           |-> Cell(day_name(ts)),
     Distance          |-> Cell(dist)]

\* dists[i] is the value np.random.uniform(5, 100) rounded to 2 decimals
\* gives for row i
enrich_with_weather(df, wd, dists) ==
    LET parsed == [i \in DOMAIN df.rows |-> pd_to_datetime(Val(df.rows[i].pickup_datetime))]
    IN  IF \E i \in DOMAIN df.rows : ~parsed[i].ok
        THEN Raise("ValueError", "enrich_with_weather")
        ELSE Ok([columns |-> EnrichedColumns,
                 rows |-> [i \in DOMAIN df.rows |->
                             EnrichRow(df.rows[i], parsed[i].val, wd, dists[i])]])

(***************************************************************************)
(* calculate_ajusted_theoretical_time                                      *)
(***************************************************************************)
\* multipliers in tenths
coeffs_package_type ==
    ("Small" :> 10) @@ ("Medium" :> 12) @@ ("Large" :> 15) @@
    ("X-Large" :> 20) @@ ("Special" :> 25)

coeffs_zone ==
    ("Urban" :> 12) @@ ("Suburban" :> 10) @@ ("Rural" :> 13) @@
    ("Industrial" :> 9) @@ ("Shopping Center" :> 14)

\* multipliers in twentieths
coeffs_weather ==
    ("Sunny" :> 20) @@ ("Cloudy" :> 21) @@ ("Rainy" :> 24) @@ ("Windy" :> 22) @@
    ("Snowy" :> 36) @@ ("Foggy" :> 26) @@ ("Unknown" :> 20)

\* 30 + row['Distance'] * 0.8, in minutes
base_theorical_time(row) == 30 + (Val(row.Distance) * 8) \div 1000

\* the time of day factor, in tenths
\* the morning band with its upper end included
MorningPeakInclusive(hour) == 7 <= hour /\ hour <= 10
MorningPeak(hour) == 7 <= hour /\ hour < 10
EveningPeak(hour) == 16 <= hour /\ hour < 19
time_of_day_factor(hour) ==
    IF MorningPeak(hour) THEN 13
    ELSE IF EveningPeak(hour) THEN 14
    ELSE 10

\* the day of week factor, in tenths
day_of_week_factor(weekday) ==
    IF weekday \in {"Monday", "Tuesday", "Wednesday", "Thursday", "Friday"} THEN 12
    ELSE IF weekday \in {"Saturday", "Sunday"} THEN 9
    ELSE 10

\* coeffs_weather.get(row.get('Weather_Condition', 'Unknown'), 1.0), in twentieths
weather_factor(row) ==
    LET key == IF "Weather_Condition" \in DOMAIN row
               THEN row.Weather_Condition
               ELSE Cell("Unknown")
    IN  IF ~IsNull(key) /\ Val(key) \in DOMAIN coeffs_weather
        THEN coeffs_weather[Val(key)]
        ELSE 20

\* the chain of multiplications, in units of 1/200000 minute
adjusted_theorical_time(row) ==
    base_theorical_time(row)
        * coeffs_package_type[Val(row.Package_Type)]
        * coeffs_zone[Val(row.Delivery_Zone)]
        * time_of_day_factor(int_hour(Val(row.Hour)))
        * day_of_week_factor(Val(row.Weekday))
        * weather_factor(row)

\* the estimator with the weather table subscripted like the other two
calculate_weather_strict(row) ==
    IF IsNull(row.Package_Type) \/ Val(row.Package_Type) \notin DOMAIN coeffs_package_type
    THEN Raise("KeyError", "calculate_ajusted_theoretical_time")
    ELSE IF IsNull(row.Delivery_Zone) \/ Val(row.Delivery_Zone) \notin DOMAIN coeffs_zone
    THEN Raise("KeyError", "calculate_ajusted_theoretical_time")
    ELSE IF IsNull(row.Weather_Condition)
              \/ Val(row.Weather_Condition) \notin DOMAIN coeffs_weather
    THEN Raise("KeyError", "calculate_ajusted_theoretical_time")
    ELSE Ok(adjusted_theorical_time(row))

\* a subscript of coeffs_package_type or coeffs_zone by a key it does not hold
\* raises KeyError
calculate_ajusted_theoretical_time(row) ==
    IF IsNull(row.Package_Type) \/ Val(row.Package_Type) \notin DOMAIN coeffs_package_type
    THEN Raise("KeyError", "calculate_ajusted_theoretical_time")
    ELSE IF IsNull(row.Delivery_Zone) \/ Val(row.Delivery_Zone) \notin DOMAIN coeffs_zone
    THEN Raise("KeyError", "calculate_ajusted_theoretical_time")
    ELSE Ok(adjusted_theorical_time(row))

(***************************************************************************)
(* transform_data                                                          *)
(***************************************************************************)
\* ajusted_theoretical_time * 1.2, in millionths of a minute
Delay_threshold(t) == t * 6

\* np.random.normal(x, x * 0.15) at sample point w, in millionths of a minute
np_random_normal(x, w) ==
    CASE w = "minus5"       -> 0 - 5000000
      [] w = "ten"          -> 10000000
      [] w = "ten04"        -> 10040000
      [] w = "ten06"        -> 10060000
      [] w = "mean"         -> x * 5
      [] w = "threshold"    -> x * 6
      [] w = "above"        -> x * 6 + 100000

Max(a, b) == IF a > b THEN a ELSE b

\* round(v, 1): millionths to tenths, a tie going to the even tenth
Round1(v) ==
    LET q == v \div 100000
        r == v % 100000
    IN  IF r > 50000 \/ (r = 50000 /\ q % 2 = 1) THEN q + 1 ELSE q

\* the rounding without the floor
ActualNoFloor(draw) == Round1(draw)

\* round(max(10, draw), 1)
Actual_Delivery_Time(draw) == Round1(Max(10000000, draw))

\* the comparison with the threshold included
StatusAtLeast(actual, threshold) ==
    IF actual * 100000 >= threshold THEN "Delayed" ELSE "On-time"

Status(actual, threshold) ==
    IF actual * 100000 > threshold THEN "Delayed" ELSE "On-time"

cols ==
    <<"Delivery_ID", "Pickup_DateTime", "Weekday", "Hour", "Package_Type",
      "Distance", "Delivery_Zone", "Weather_Condition", "Actual_Delivery_Time",
      "Status">>

\* df[c]: the frame restricted to the listed columns
SelectColumns(df, c) ==
    [columns |-> c,
     rows |-> [i \in DOMAIN df.rows |->
                 [k \in {c[j] : j \in DOMAIN c} |-> df.rows[i][k]]]]

EstimatedRow(row, t, draw) ==
    LET actual == Actual_Delivery_Time(draw)
    IN  [k \in DOMAIN row \cup {"ajusted_theoretical_time", "Delay_threshold",
                                "Actual_Delivery_Time", "Status"} |->
            CASE k = "ajusted_theoretical_time" -> Cell(t)
              [] k = "Delay_threshold"          -> Cell(Delay_threshold(t))
              [] k = "Actual_Delivery_Time"     -> Cell(actual)
              [] k = "Status"                   -> Cell(Status(actual, Delay_threshold(t)))
              [] OTHER                          -> row[k]]

\* dists and samples give the random source's output for each row; the result
\* carries the local frame (full), the draws and the returned frame (out)
transform_data(df, wd, dists, samples) ==
    LET enriched == enrich_with_weather(df, wd, dists)
    IN  IF ~enriched.ok THEN enriched
        ELSE
        LET e == enriched.val
            times == [i \in DOMAIN e.rows |-> calculate_ajusted_theoretical_time(e.rows[i])]
        IN  IF \E i \in DOMAIN e.rows : ~times[i].ok
            THEN Raise("KeyError", "calculate_ajusted_theoretical_time")
            ELSE
            LET draws == [i \in DOMAIN e.rows |-> np_random_normal(times[i].val, samples[i])]
                full == [columns |-> e.columns \o <<"ajusted_theoretical_time",
                                        "Delay_threshold", "Actual_Delivery_Time", "Status">>,
                         rows |-> [i \in DOMAIN e.rows |->
                                     EstimatedRow(e.rows[i], times[i].val, draws[i])]]
            IN  Ok([full |-> full, draws |-> draws, out |-> SelectColumns(full, cols)])

(***************************************************************************)
(* validation_dataframe and save_results                                   *)
(***************************************************************************)
\* the validation without its null check
validation_columns_only(df, required_columns) ==
    LET missing_columns == {required_columns[j] : j \in DOMAIN required_columns}
                               \ ColumnSet(df)
    IN  IF missing_columns # {}
        THEN Raise("Missing columns", "validation_dataframe")
        ELSE Ok(<<>>)

\* the validation with .all() for the first .any(): only a column that is
\* null in every row is reported
validation_all_null(df, required_columns) ==
    LET missing_columns == {required_columns[j] : j \in DOMAIN required_columns}
                               \ ColumnSet(df)
    IN  IF missing_columns # {}
        THEN Raise("Missing columns", "validation_dataframe")
        ELSE IF \E j \in DOMAIN required_columns : \A i \in DOMAIN df.rows :
                    IsNull(df.rows[i][required_columns[j]])
        THEN Raise("The dataframe contains null values", "validation_dataframe")
        ELSE Ok(<<>>)

validation_dataframe(df, required_columns) ==
    LET missing_columns == {required_columns[j] : j \in DOMAIN required_columns}
                               \ ColumnSet(df)
    IN  IF missing_columns # {}
        THEN Raise("Missing columns", "validation_dataframe")
        ELSE IF \E i \in DOMAIN df.rows : \E j \in DOMAIN required_columns :
                    IsNull(df.rows[i][required_columns[j]])
        THEN Raise("The dataframe contains null values", "validation_dataframe")
        ELSE Ok(<<>>)

expected_columns ==
    <<"Delivery_ID", "Pickup_DateTime", "Weekday", "Hour", "Package_Type",
      "Distance", "Delivery_Zone", "Weather_Condition", "Actual_Delivery_Time",
      "Status">>

\* OUTPUT_PATH: absent, a file some earlier program left, or one to_csv wrote
Absent == [exists |-> FALSE, by_save |-> FALSE, header |-> <<>>, lines |-> <<>>]
OldFile == [exists |-> TRUE, by_save |-> FALSE, header |-> <<"legacy">>,
            lines |-> << <<None>> >>]

\* one line of the CSV: the row's cells in column order, a null as an empty field
CsvLine(row, columns) == [j \in DOMAIN columns |-> row[columns[j]]]

\* df.to_csv(OUTPUT_PATH, index=False), stopped after n data lines
to_csv(df, n) ==
    [exists |-> TRUE, by_save |-> TRUE, header |-> df.columns,
     lines |-> [i \in 1 .. n |-> CsvLine(df.rows[i], df.columns)]]

\* what the file system does to one save_results call: nothing, os.remove
\* raises, to_csv cannot open the file, or to_csv stops after n data lines
IoOutcomes(df) ==
    {[kind |-> k, n |-> 0] : k \in {"ok", "remove_fails", "open_fails"}}
        \cup {[kind |-> "write_stops", n |-> n] : n \in 0 .. Len(df.rows) - 1}

\* save_results with the removal of the existing file ahead of the validation
save_results_remove_first(df, file, io) ==
    LET valid == validation_dataframe(df, expected_columns)
    IN  IF file.exists /\ io.kind = "remove_fails"
        THEN [ret |-> FALSE, file |-> file, err |-> "OSError"]
        ELSE IF ~valid.ok
        THEN [ret |-> FALSE, file |-> Absent, err |-> valid.exc]
        ELSE IF io.kind = "open_fails"
        THEN [ret |-> FALSE, file |-> Absent, err |-> "OSError"]
        ELSE IF io.kind = "write_stops"
        THEN [ret |-> FALSE, file |-> to_csv(df, io.n), err |-> "OSError"]
        ELSE [ret |-> TRUE, file |-> to_csv(df, Len(df.rows)), err |-> ""]

\* save_results without the call of validation_dataframe
save_results_unvalidated(df, file, io) ==
    IF file.exists /\ io.kind = "remove_fails"
    THEN [ret |-> FALSE, file |-> file, err |-> "OSError"]
    ELSE IF io.kind = "open_fails"
    THEN [ret |-> FALSE, file |-> Absent, err |-> "OSError"]
    ELSE IF io.kind = "write_stops"
    THEN [ret |-> FALSE, file |-> to_csv(df, io.n), err |-> "OSError"]
    ELSE [ret |-> TRUE, file |-> to_csv(df, Len(df.rows)), err |-> ""]

\* the value save_results returns, the file it leaves and the exception it
\* logged ("" when none)
save_results(df, file, io) ==
    LET valid == validation_dataframe(df, expected_columns)
    IN  IF ~valid.ok
        THEN [ret |-> FALSE, file |-> file, err |-> valid.exc]
        ELSE IF file.exists /\ io.kind = "remove_fails"
        THEN [ret |-> FALSE, file |-> file, err |-> "OSError"]
        ELSE IF io.kind = "open_fails"
        THEN [ret |-> FALSE, file |-> Absent, err |-> "OSError"]
        ELSE IF io.kind = "write_stops"
        THEN [ret |-> FALSE, file |-> to_csv(df, io.n), err |-> "OSError"]
        ELSE [ret |-> TRUE, file |-> to_csv(df, Len(df.rows)), err |-> ""]

(***************************************************************************)
(* Data sources                                                            *)
(***************************************************************************)
RawColumns ==
    <<"delivery_id", "pickup_datetime", "package_type", "delivery_zone",
      "recipient_id">>

Stamp(d, h) == [text_ok |-> TRUE, date |-> d, hour |-> h]
BadStamp == [text_ok |-> FALSE, date |-> 0, hour |-> 0]

RawRow(id, stamp, package, zone) ==
    [delivery_id     |-> Cell(id),
     pickup_datetime |-> Cell(stamp),
     package_type    |-> Cell(package),
     delivery_zone   |-> Cell(zone),
     recipient_id    |-> Cell(42)]

\* pd.read_sql("SELECT * FROM deliveries")
extract_sqlite_data(table) == [columns |-> RawColumns, rows |-> table]

package_types == {"Small", "Medium", "Large", "X-Large", "Special"}
delivery_zones == {"Urban", "Suburban", "Rural", "Industrial", "Shopping Center"}
conditions == <<"Sunny", "Cloudy", "Rainy", "Windy", "Snowy", "Foggy">>

\* generate_weather_data: every hour of every day from the first day on.
\* create_sqlite_database and generate_weather_data each read the clock: when
\* midnight falls between the two reads the weather starts one day after the
\* earliest delivery (first = 1), otherwise on the same day (first = 0)
GeneratedWeather(first) ==
    [d \in {DateStrs[i + 1] : i \in first .. 6} |->
        [h \in {HourStrs[i + 1] : i \in Hours} |->
            conditions[((int_hour(h) \div 4) % 6) + 1]]]

\* weather tables handed to transform_data directly: k shifts the pattern,
\* the seventh condition is one the estimator does not know
CallConditions == conditions \o <<"Stormy">>
PatternWeather(k, dates, hours) ==
    [d \in {DateStrs[i + 1] : i \in dates} |->
        [h \in {HourStrs[i + 1] : i \in hours} |->
            LET di == CHOOSE i \in Dates : DateStrs[i + 1] = d
            IN  CallConditions[((int_hour(h) + di + k + 6) % 7) + 1]]]

CallWeathers == {PatternWeather(0, Dates, Hours), PatternWeather(3, 0 .. 5, 0 .. 22)}

\* the deliveries create_sqlite_database inserts (ids 1, 2, ...)
PipelineRows ==
    {RawRow(0, Stamp(d, h), p, "Urban") : d \in {0, 1}, h \in {8, 20},
                                          p \in {"Small", "Special"}}
WithIds(table) ==
    [i \in DOMAIN table |-> [table[i] EXCEPT !.delivery_id = Cell(i)]]
GeneratedTables ==
    UNION {{WithIds(t) : t \in [1 .. n -> PipelineRows]} : n \in 1 .. MaxRows}

\* rows handed to transform_data directly
CallRows ==
    {RawRow(1, s, p, z) :
        s \in {Stamp(d, h) : d \in Dates, h \in Hours} \cup {BadStamp},
        p \in package_types \cup {"Fragile"},
        z \in delivery_zones \cup {"Harbor"}}

\* distances in hundredths of a kilometre, multiples of 1.25 km so that the
\* base time is a whole number of minutes
Distances == {500, 5000, 10000}
Samples == {"minus5", "ten", "ten04", "ten06", "mean", "threshold", "above"}
PipelineDistances == {5000}
PipelineSamples == {"mean", "above"}

NotCalled == Raise("NotCalled", "")

(***************************************************************************)
(* run_pipeline, one action per step                                       *)
(***************************************************************************)
Fail(stage) ==
    /\ errors' = Append(errors, <<"pipeline", stage>>)
    /\ result' = "False"
    /\ pc' = "done"

\* Step 1: create_sqlite_database() and generate_weather_data()
GenerateSources ==
    /\ pc = "start"
    /\ \/ /\ \E t \in GeneratedTables, first \in {0, 1} :
                /\ db' = t
                /\ weather_data' = GeneratedWeather(first)
          /\ pc' = "generated"
          /\ UNCHANGED <<result, errors>>
       \/ /\ Fail("generation")
          /\ UNCHANGED <<db, weather_data>>
    /\ UNCHANGED <<df_deliveries, df_estimated, normal_draws, df_transformed,
                   output_file, save_arg, save_ret, save_err, saves>>

\* Step 2: extract_sqlite_data()
Extract ==
    /\ pc = "generated"
    /\ \/ /\ df_deliveries' = extract_sqlite_data(db)
          /\ pc' = "extracted"
          /\ UNCHANGED <<result, errors>>
       \/ /\ Fail("extraction")
          /\ UNCHANGED df_deliveries
    /\ UNCHANGED <<db, weather_data, df_estimated, normal_draws, df_transformed,
                   output_file, save_arg, save_ret, save_err, saves>>

\* Step 3: transform_data(df_deliveries, weather_data)
Transform ==
    /\ pc = "extracted"
    /\ \/ \E dists \in [DOMAIN df_deliveries.rows -> PipelineDistances],
             samples \in [DOMAIN df_deliveries.rows -> PipelineSamples] :
            LET r == transform_data(df_deliveries, weather_data, dists, samples)
            IN  IF r.ok
                THEN /\ df_transformed' = Ok(r.val.out)
                     /\ df_estimated' = r.val.full
                     /\ normal_draws' = r.val.draws
                     /\ pc' = "transformed"
                     /\ UNCHANGED <<result, errors>>
                ELSE /\ df_transformed' = r
                     /\ Fail("transformation")
                     /\ UNCHANGED <<df_estimated, normal_draws>>
       \/ /\ Fail("transformation")
          /\ UNCHANGED <<df_estimated, normal_draws, df_transformed>>
    /\ UNCHANGED <<db, weather_data, df_deliveries, output_file, save_arg,
                   save_ret, save_err, saves>>

\* Step 4: save_results(df_transformed), whose value is dropped, then return True
Save ==
    /\ pc = "transformed"
    /\ \E io \in IoOutcomes(df_transformed.val) :
          LET s == save_results(df_transformed.val, output_file, io)
          IN  /\ output_file' = s.file
              /\ save_ret' = IF s.ret THEN "True" ELSE "False"
              /\ save_err' = s.err
              /\ errors' = IF s.ret THEN errors ELSE Append(errors, <<"save", s.err>>)
    /\ save_arg' = df_transformed.val
    /\ saves' = saves + 1
    /\ result' = "True"
    /\ pc' = "done"
    /\ UNCHANGED <<db, weather_data, df_deliveries, df_estimated, normal_draws,
                   df_transformed>>

Init ==
    /\ pc = "start"
    /\ db = <<>>
    /\ weather_data = <<>>
    /\ df_deliveries = EmptyFrame
    /\ df_estimated = EmptyFrame
    /\ normal_draws = <<>>
    /\ df_transformed = NotCalled
    /\ output_file \in {Absent, OldFile}
    /\ save_arg = EmptyFrame
    /\ save_ret = "None"
    /\ save_err = ""
    /\ result = "None"
    /\ errors = <<>>
    /\ saves = 0

Next == GenerateSources \/ Extract \/ Transform \/ Save

Spec == Init /\ [][Next]_vars

(***************************************************************************)
(* transform_data called on one-row frames                                 *)
(***************************************************************************)
CallTransformData ==
    /\ pc = "call"
    /\ \E dist \in Distances, sample \in Samples :
          LET r == transform_data(df_deliveries, weather_data,
                                  [i \in DOMAIN df_deliveries.rows |-> dist],
                                  [i \in DOMAIN df_deliveries.rows |-> sample])
          IN  IF r.ok
              THEN /\ df_transformed' = Ok(r.val.out)
                   /\ df_estimated' = r.val.full
                   /\ normal_draws' = r.val.draws
              ELSE /\ df_transformed' = r
                   /\ UNCHANGED <<df_estimated, normal_draws>>
    /\ pc' = "returned"
    /\ UNCHANGED <<db, weather_data, df_deliveries, output_file, save_arg,
                   save_ret, save_err, result, errors, saves>>

InitTransform ==
    /\ pc = "call"
    /\ db = <<>>
    /\ weather_data \in CallWeathers
    /\ df_deliveries \in {extract_sqlite_data(<<r>>) : r \in CallRows}
    /\ df_estimated = EmptyFrame
    /\ normal_draws = <<>>
    /\ df_transformed = NotCalled
    /\ output_file = Absent
    /\ save_arg = EmptyFrame
    /\ save_ret = "None"
    /\ save_err = ""
    /\ result = "None"
    /\ errors = <<>>
    /\ saves = 0

NextTransform == CallTransformData

SpecTransform == InitTransform /\ [][NextTransform]_vars

(***************************************************************************)
(* save_results called repeatedly on frames of every shape                 *)
(***************************************************************************)
SampleRaw ==
    <<RawRow(1, Stamp(0, 8), "Small", "Urban"),
      RawRow(2, Stamp(5, 17), "Special", "Rural")>>

SampleResult(sample) ==
    transform_data(extract_sqlite_data(SampleRaw), PatternWeather(0, Dates, Hours),
                   [i \in 1 .. 2 |-> 5000], [i \in 1 .. 2 |-> sample]).val

\* the frame without column c
DropColumn(df, c) ==
    SelectColumns(df, SelectSeq(df.columns, LAMBDA x : x # c))
\* the frame with a null in row i, column c
NullCell(df, i, c) == [df EXCEPT !.rows[i][c] = None]
\* the frame with its columns and no row
NoRows(df) == [df EXCEPT !.rows = <<>>]

SaveInputs ==
    LET good == SampleResult("mean").out
        full == SampleResult("mean").full
    IN  {good, SampleResult("above").out, NoRows(good), full,
         NullCell(full, 1, "Delay_threshold")}
          \cup {DropColumn(good, cols[j]) : j \in DOMAIN cols}
          \cup {NullCell(good, i, cols[j]) : i \in 1 .. 2, j \in DOMAIN cols}

CallSaveResults ==
    /\ pc = "saving"
    /\ saves < MaxSaves
    /\ \E df \in SaveInputs : \E io \in IoOutcomes(df) :
          LET s == save_results(df, output_file, io)
          IN  /\ save_arg' = df
              /\ output_file' = s.file
              /\ save_ret' = IF s.ret THEN "True" ELSE "False"
              /\ save_err' = s.err
              /\ errors' = IF s.ret THEN errors ELSE Append(errors, <<"save", s.err>>)
    /\ saves' = saves + 1
    /\ UNCHANGED <<pc, db, weather_data, df_deliveries, df_estimated, normal_draws,
                   df_transformed, result>>

InitSave ==
    /\ pc = "saving"
    /\ db = <<>>
    /\ weather_data = <<>>
    /\ df_deliveries = EmptyFrame
    /\ df_estimated = EmptyFrame
    /\ normal_draws = <<>>
    /\ df_transformed = NotCalled
    /\ output_file \in {Absent, OldFile}
    /\ save_arg = EmptyFrame
    /\ save_ret = "None"
    /\ save_err = ""
    /\ result = "None"
    /\ errors = <<>>
    /\ saves = 0

NextSave == CallSaveResults

SpecSave == InitSave /\ [][NextSave]_vars

(***************************************************************************)
(* Properties                                                              *)
(***************************************************************************)
\* the ten columns of a FinalDelivery row
Required ==
    {"Delivery_ID", "Pickup_DateTime", "Weekday", "Hour", "Package_Type",
     "Distance", "Delivery_Zone", "Weather_Condition", "Actual_Delivery_Time",
     "Status"}
HasAllRequired(df) == Required \subseteq ColumnSet(df)
HasNullRequired(df) ==
    \E i \in DOMAIN df.rows : \E c \in Required : IsNull(df.rows[i][c])
Fit(df) == HasAllRequired(df) /\ ~HasNullRequired(df)

\* the weather table has no entry for the date, or none for the hour
SlotAbsent(wd, stamp) ==
    \/ DateStrs[stamp.date + 1] \notin DOMAIN wd
    \/ HourStrs[stamp.hour + 1] \notin DOMAIN wd[DateStrs[stamp.date + 1]]

RawStamp(i) == Val(df_deliveries.rows[i].pickup_datetime)
RawPackage(i) == Val(df_deliveries.rows[i].package_type)
RawZone(i) == Val(df_deliveries.rows[i].delivery_zone)
Estimated(i) == df_estimated.rows[i]
Returned == pc = "returned" /\ df_transformed.ok

\* the product of every factor but the weather's, in units of 1/10000 minute
ProductBeforeWeather(row) ==
    base_theorical_time(row)
        * coeffs_package_type[Val(row.Package_Type)]
        * coeffs_zone[Val(row.Delivery_Zone)]
        * time_of_day_factor(int_hour(Val(row.Hour)))
        * day_of_week_factor(Val(row.Weekday))

\* C1: when run_pipeline has returned, it returned True exactly when no stage
\* logged a failure; a failure of the generation, the extraction, the
\* transformation, the validation or the write makes it return False.
C1_FailureReturnsFalse ==
    pc = "done" =>
        /\ result \in {"True", "False"}
        /\ (result = "True" <=> errors = <<>>)

\* C2: after a save_results call, a frame missing a required column was
\* rejected with "Missing columns", a frame with all of them and a null in one
\* was rejected with "The dataframe contains null values", both making the call
\* return False, and a frame with all of them and no null passed the validation.
C2_ValidatorVerdict ==
    saves > 0 =>
        /\ ~HasAllRequired(save_arg) =>
              save_ret = "False" /\ save_err = "Missing columns"
        /\ (HasAllRequired(save_arg) /\ HasNullRequired(save_arg)) =>
              save_ret = "False" /\ save_err = "The dataframe contains null values"
        /\ Fit(save_arg) => save_err \in {"", "OSError"}

C2_Witness ==
    /\ saves > 0
    /\ HasAllRequired(save_arg)
    /\ HasNullRequired(save_arg)
    /\ save_ret = "False"
    /\ save_err = "The dataframe contains null values"

\* C3: in every save_results call, a frame that fails the validation makes the
\* call return False and leaves OUTPUT_PATH as it was, and OUTPUT_PATH changes
\* (is removed or written) only for a frame that passed the validation.
C3_ValidateBeforeDestroy ==
    [][saves' = saves + 1 =>
          /\ ~Fit(save_arg') => (save_ret' = "False" /\ output_file' = output_file)
          /\ output_file' # output_file => Fit(save_arg')]_vars

C3_Witness ==
    /\ saves > 0
    /\ ~Fit(save_arg)
    /\ save_ret = "False"
    /\ output_file = OldFile

\* C4: after any sequence of save_results calls, a file save_results wrote has
\* the ten columns in its header and no empty field under any of them.
C4_FileHasNoNull ==
    output_file.by_save =>
        \A c \in Required :
            /\ \E j \in DOMAIN output_file.header : output_file.header[j] = c
            /\ \A i \in DOMAIN output_file.lines :
                  \A j \in DOMAIN output_file.header :
                      output_file.header[j] = c => ~IsNull(output_file.lines[i][j])

C4_Witness ==
    /\ output_file.by_save
    /\ Len(output_file.lines) = 2
    /\ HasAllRequired(save_arg)
    /\ HasNullRequired(save_arg)

\* C5: a delivery whose pickup date or hour is absent from the weather table
\* (its package type and zone being recognized) is kept by transform_data with a
\* null Weather_Condition, its theoretical time is the product of the other
\* factors times 1.0, and nothing is raised.
C5_MissGivesNull ==
    (/\ pc = "returned"
     /\ RawStamp(1).text_ok
     /\ SlotAbsent(weather_data, RawStamp(1))
     /\ RawPackage(1) \in package_types
     /\ RawZone(1) \in delivery_zones) =>
        /\ df_transformed.ok
        /\ Len(df_transformed.val.rows) = Len(df_deliveries.rows)
        /\ IsNull(df_transformed.val.rows[1].Weather_Condition)
        /\ IsNull(Estimated(1).Weather_Condition)
        /\ Val(Estimated(1).ajusted_theoretical_time)
              = ProductBeforeWeather(Estimated(1)) * 20

C5_Witness ==
    /\ Returned
    /\ SlotAbsent(weather_data, RawStamp(1))
    /\ IsNull(df_transformed.val.rows[1].Weather_Condition)
    /\ Val(Estimated(1).Hour) = "23"

\* the factors as the claim states them, in tenths
ClaimedTimeOfDay(hour) ==
    IF hour \in {7, 8, 9} THEN 13 ELSE IF hour \in {16, 17, 18} THEN 14 ELSE 10
ClaimedWeekday(weekday) ==
    IF weekday \in {"Saturday", "Sunday"} THEN 9 ELSE 12
IsScenario(row) ==
    /\ Val(row.Package_Type) = "Small"
    /\ Val(row.Delivery_Zone) = "Urban"
    /\ Val(row.Distance) = 5000
    /\ Val(row.Hour) = "8"
    /\ Val(row.Weekday) = "Monday"
    /\ row.Weather_Condition = Cell("Sunny")

\* C6: for a row with a recognized weather condition, ajusted_theoretical_time
\* is (30 + 0.8 * Distance) * package * zone * time of day * weekday * weather,
\* the time of day factor being 1.3 for hours 7..9, 1.4 for hours 16..18 and 1
\* otherwise, the weekday factor 1.2 from Monday to Friday and 0.9 at the week
\* end; Delay_threshold is 1.2 times it; Small, Urban, 50.00, hour 8, Monday,
\* Sunny gives 131.04 and 157.248.
C6_TheoreticalTime ==
    (/\ Returned
     /\ ~IsNull(Estimated(1).Weather_Condition)
     /\ Val(Estimated(1).Weather_Condition) \in DOMAIN coeffs_weather) =>
        LET row == Estimated(1)
            hour == CHOOSE h \in Hours : HourStrs[h + 1] = Val(row.Hour)
            t == Val(row.ajusted_theoretical_time)
        IN  /\ t = (30 + (8 * Val(row.Distance)) \div 1000)
                      * coeffs_package_type[Val(row.Package_Type)]
                      * coeffs_zone[Val(row.Delivery_Zone)]
                      * ClaimedTimeOfDay(hour)
                      * ClaimedWeekday(Val(row.Weekday))
                      * coeffs_weather[Val(row.Weather_Condition)]
            /\ hour = RawStamp(1).hour
            /\ Val(row.Delay_threshold) = 6 * t
            /\ IsScenario(row) =>
                  t = 26208000 /\ Val(row.Delay_threshold) = 157248000

C6_Witness ==
    /\ Returned
    /\ IsScenario(Estimated(1))
    /\ Val(Estimated(1).ajusted_theoretical_time) = 26208000

\* C7: Actual_Delivery_Time is at least 10.0; it is exactly 10.0 when the draw
\* is at or below 10, and otherwise the tenth nearest to the draw.
C7_ActualFloor ==
    Returned =>
        \A i \in DOMAIN df_transformed.val.rows :
            LET a == Val(df_transformed.val.rows[i].Actual_Delivery_Time)
                d == normal_draws[i]
            IN  /\ a >= 100
                /\ d <= 10000000 => a = 100
                /\ d > 10000000 =>
                      (a * 100000 - d <= 50000 /\ d - a * 100000 <= 50000)

C7_Witness ==
    /\ Returned
    /\ normal_draws[1] = 0 - 5000000
    /\ Val(df_transformed.val.rows[1].Actual_Delivery_Time) = 100

\* C8: Status is "Delayed" exactly when Actual_Delivery_Time is strictly above
\* Delay_threshold = 1.2 * ajusted_theoretical_time, and "On-time" otherwise.
C8_StatusStrict ==
    Returned =>
        \A i \in DOMAIN df_transformed.val.rows :
            LET a == Val(df_transformed.val.rows[i].Actual_Delivery_Time)
                threshold == 6 * Val(Estimated(i).ajusted_theoretical_time)
                status == Val(df_transformed.val.rows[i].Status)
            IN  /\ status \in {"Delayed", "On-time"}
                /\ status = "Delayed" <=> a * 100000 > threshold

C8_Witness ==
    /\ Returned
    /\ Val(df_transformed.val.rows[1].Actual_Delivery_Time) * 100000
          = 6 * Val(Estimated(1).ajusted_theoretical_time)
    /\ Val(df_transformed.val.rows[1].Status) = "On-time"

\* C9 as stated: neither enrich_with_weather nor
\* calculate_ajusted_theoretical_time raises, whatever the row.
C9_NeverRaises ==
    pc = "returned" =>
        df_transformed.where \notin {"enrich_with_weather",
                                     "calculate_ajusted_theoretical_time"}

\* C9 amended: only the weather lookups degrade. A row with a parseable
\* timestamp and a recognized package type and zone raises nothing, a weather
\* condition that is null or not in the table counting as 1.0; an unrecognized
\* package type or zone raises KeyError in the estimator, an unparseable
\* timestamp raises ValueError in the enricher.
C9_OnlyWeatherDegrades ==
    pc = "returned" =>
        /\ ~RawStamp(1).text_ok =>
              (/\ ~df_transformed.ok
               /\ df_transformed.exc = "ValueError"
               /\ df_transformed.where = "enrich_with_weather")
        /\ (/\ RawStamp(1).text_ok
            /\ (RawPackage(1) \notin package_types \/ RawZone(1) \notin delivery_zones)) =>
              (/\ ~df_transformed.ok
               /\ df_transformed.exc = "KeyError"
               /\ df_transformed.where = "calculate_ajusted_theoretical_time")
        /\ (/\ RawStamp(1).text_ok
            /\ RawPackage(1) \in package_types
            /\ RawZone(1) \in delivery_zones) =>
              (/\ df_transformed.ok
               /\ (\/ IsNull(Estimated(1).Weather_Condition)
                   \/ Val(Estimated(1).Weather_Condition) \notin DOMAIN coeffs_weather) =>
                     Val(Estimated(1).ajusted_theoretical_time)
                        = ProductBeforeWeather(Estimated(1)) * 20)

C9_Witness ==
    /\ Returned
    /\ Estimated(1).Weather_Condition = Cell("Stormy")
    /\ Val(Estimated(1).ajusted_theoretical_time)
          = ProductBeforeWeather(Estimated(1)) * 20

\* C10: when a delivery's pickup date or hour is absent from the weather table,
\* the frame transform_data returns holds a null Weather_Condition, and
\* save_results on it returns False and writes no file.
C10_MissFailsBatch ==
    (/\ pc \in {"transformed", "done"}
     /\ df_transformed.ok
     /\ \E i \in DOMAIN df_deliveries.rows : SlotAbsent(weather_data, RawStamp(i))) =>
        /\ \E i \in DOMAIN df_transformed.val.rows :
              IsNull(df_transformed.val.rows[i].Weather_Condition)
        /\ pc = "done" =>
              (/\ save_ret = "False"
               /\ save_err = "The dataframe contains null values"
               /\ ~output_file.by_save)

C10_Witness ==
    /\ pc = "done"
    /\ Len(df_deliveries.rows) = 2
    /\ SlotAbsent(weather_data, RawStamp(1))
    /\ ~SlotAbsent(weather_data, RawStamp(2))
    /\ save_ret = "False"
    /\ output_file = OldFile

====
